---- MODULE Spec2Model ----
(***************************************************************************)
(* stride-sync: the progress / goal engine of ActivityService              *)
(* (src/src/app/modules/activities/activity.service.ts) together with the  *)
(* stores it reads and writes, the AuthService token holder that           *)
(* syncActivities reads, AdminService's goal configuration, UserService's  *)
(* user management, the cleanup job, the scheduled Strava sync and the      *)
(* activity and progress routes with their middlewares and controllers.    *)
(* The operations are modelled twice: as atomic actions, and step by step, *)
(* one store operation at a time, for the interleavings and the failures   *)
(* of store operations.                                                    *)
(*                                                                         *)
(* Numbers.  The code computes in IEEE doubles; the model uses fixed point *)
(* integers: distances and goal targets in tenths of a mile, durations and *)
(* paces in hundredths of a minute (per mile), percentages in tenths of a  *)
(* percent.  Calendar dates are [year, month, day] records in the server's *)
(* local time; Date.now() is the clock tick.                               *)
(*                                                                         *)
(* Optional values.  A Firestore document that may be absent, and a field  *)
(* that may be null / undefined, is a set with at most one element.        *)
(***************************************************************************)
EXTENDS Integers, Sequences, FiniteSets, TLC

VARIABLES
    clock,        \* wall clock of the server, in ticks since the model's start
    token,        \* AuthService singleton: {} or {athlete whose Strava token is held}
    activities,   \* users/{u}/activities : the set of stored activity documents
    goals,        \* users/{u}/goals      : document id -> goal document
    progress,     \* users/{u}/progress/current : {} or {Progress}
    adminConfig,  \* admin/config         : {} or {the goals field of the config}
    users,        \* users/{u}            : user id -> user document
    ret,          \* the outcome of the last call or request that ended
    calls,        \* the calls in flight: caller -> position and locals of its call
    rootActivities \* activities/{id} : the top-level collection of the scheduled sync

vars == <<clock, token, activities, goals, progress, adminConfig, users, ret, calls,
          rootActivities>>

(***************************************************************************)
(* Bounds of the model.                                                    *)
(***************************************************************************)
StartYear == 2024
TicksPerMonth == 2
MaxClock == 3

\* The clock starts on December 1 of StartYear.
StartMonthIndex == StartYear * 12 + 11

MaxPages == 6

\* The last tick of the clock while calls interleave.
MaxRaceClock == 1

\* The users of the two specifications: one with a short Strava history whose
\* activities are edited and deleted, one with a long history synced page by page.
Users == {"u1"}
BulkUsers == {"u2"}

\* The users of the HTTP specification: two accounts, either of which can be
\* made an admin, deactivated and deleted.
HttpUsers == {"u3", "u4"}

\* The user of the activity endpoints: one account whose activities are
\* synced, read, edited and deleted through the routes.
ApiUsers == {"u6"}

\* Two athletes who log in one after the other, each with a Strava history
\* of its own, and whom the scheduled sync visits.
LoginUsers == {"u7", "u8"}

\* The user of the interleaving specifications and the requests served at
\* the same time: two that interleave, or one at a time.
RaceUsers == {"u5"}
Callers == {"c1", "c2"}
SeqCallers == {"c1"}

(***************************************************************************)
(* Constants of the program.                                               *)
(***************************************************************************)
DefaultMonthlyTarget == 262
DefaultSeasonalTarget == 786
ProgressQueryLimit == 1000
PerPage == 200

(***************************************************************************)
(* The clock: new Date() and Date.now().                                   *)
(***************************************************************************)
MonthIndex(t) == StartMonthIndex + (t \div TicksPerMonth)
GetFullYear(t) == MonthIndex(t) \div 12
GetMonth(t) == MonthIndex(t) % 12
DateNow(t) == t

IsLeap(y) == (y % 4 = 0 /\ y % 100 # 0) \/ y % 400 = 0
DaysInMonth(y, m) ==
    IF m = 2 THEN (IF IsLeap(y) THEN 29 ELSE 28)
    ELSE IF m \in {4, 6, 9, 11} THEN 30 ELSE 31

\* new Date(year, monthIndex, day) with JavaScript's normalisation of a day 0
\* (the last day of the previous month) and of a month index 12 (January of
\* the next year); toISOString() keeps the calendar date.
NewDate(year, monthIndex, day) ==
    LET y == year + (monthIndex \div 12)
        m == (monthIndex % 12) + 1
    IN  IF day = 0
        THEN LET py == IF m = 1 THEN y - 1 ELSE y
                 pm == IF m = 1 THEN 12 ELSE m - 1
             IN  [year |-> py, month |-> pm, day |-> DaysInMonth(py, pm)]
        ELSE [year |-> y, month |-> m, day |-> day]

(***************************************************************************)
(* Optional values.                                                        *)
(***************************************************************************)
Absent == {}
Some(x) == {x}
Get(s) == CHOOSE x \in s : TRUE

RECURSIVE SumFn(_)
SumFn(f) ==
    IF DOMAIN f = {} THEN 0
    ELSE LET x == CHOOSE y \in DOMAIN f : TRUE
         IN  f[x] + SumFn([y \in DOMAIN f \ {x} |-> f[y]])

Max(S) == CHOOSE x \in S : \A y \in S : y <= x

(***************************************************************************)
(* Strava: what GET /athlete/activities can answer for each athlete.  An   *)
(* athlete's id is the id of the user created at that athlete's login.     *)
(***************************************************************************)
\* The k-th PerPage activities of a long history, all runs of one mile.
BulkPage(athlete, k) ==
    { [id |-> 1000 + i, type |-> "Run", distance |-> 1610, moving_time |-> 360,
       start_date |-> [year |-> StartYear, month |-> 12, day |-> 1]] :
      i \in k * PerPage + 1 .. (k + 1) * PerPage }

StravaActivities(athlete) ==
    IF athlete \in Users THEN
        { [id |-> 1, type |-> "Run", distance |-> 1610, moving_time |-> 360,
           start_date |-> [year |-> StartYear, month |-> 12, day |-> 20]],
          [id |-> 2, type |-> "Walk", distance |-> 3219, moving_time |-> 960,
           start_date |-> [year |-> StartYear, month |-> 1, day |-> 15]],
          [id |-> 3, type |-> "Ride", distance |-> 16100, moving_time |-> 1800,
           start_date |-> [year |-> StartYear, month |-> 12, day |-> 21]] }
    ELSE IF athlete \in BulkUsers
    THEN UNION { BulkPage(athlete, k) : k \in 0 .. MaxPages - 1 }
    ELSE IF athlete \in ApiUsers
    THEN { [id |-> 6, type |-> "Run", distance |-> 1610, moving_time |-> 360,
            start_date |-> [year |-> StartYear, month |-> 12, day |-> 20],
            map |-> [summary_polyline |-> "polyline"]] }
    ELSE IF athlete \in LoginUsers
    THEN \* one run each, under the id Strava gave it
         { [id |-> IF athlete = "u7" THEN 7 ELSE 8, type |-> "Run",
            distance |-> 1610, moving_time |-> 360,
            start_date |-> [year |-> StartYear, month |-> 12, day |-> 20]] }
    ELSE { [id |-> 1, type |-> "Run", distance |-> 1610, moving_time |-> 360,
            start_date |-> [year |-> StartYear, month |-> 12, day |-> 20]] }

\* per_page: 200, page: 1.  One answer holds at most PerPage activities: any part
\* of a short history, and for a long history the PerPage activities that were
\* its most recent ones at some time.
StravaPages(athlete) ==
    IF athlete \in BulkUsers
    THEN { BulkPage(athlete, k) : k \in 0 .. MaxPages - 1 }
    ELSE { page \in SUBSET StravaActivities(athlete) : Cardinality(page) <= PerPage }

\* The bodies a caller sends to updateActivity.
UpdateBodies == { [pace |-> Absent] }

(***************************************************************************)
(* Unit conversion and convertToActivitySummary.  name, elevation,         *)
(* calories and the syncedAt / updatedAt stamps are written by the code    *)
(* and read by nothing modelled here; the documents omit them.             *)
(***************************************************************************)
\* 0.000621371 miles per meter, in tenths of a mile, the factor cut to four digits.
MetersToMiles(meters) == (meters * 6214) \div 1000000
SecondsToMinutes(seconds) == (seconds * 100) \div 60
CalculatePace(distanceMiles, durationMinutes) ==
    IF distanceMiles > 0 THEN (durationMinutes * 10) \div distanceMiles ELSE 0

ConvertToActivitySummary(activity) ==
    LET distanceMiles == MetersToMiles(activity.distance)
        durationMinutes == SecondsToMinutes(activity.moving_time)
    IN  [id |-> activity.id,
         type |-> activity.type,
         distance |-> distanceMiles,
         duration |-> durationMinutes,
         date |-> activity.start_date,
         pace |-> Some(CalculatePace(distanceMiles, durationMinutes)),
         \* activity.map?.summary_polyline
         route |-> IF "map" \in DOMAIN activity
                   THEN Some(activity.map.summary_polyline) ELSE Absent]

(***************************************************************************)
(* getUserActivities(userId, {limit}): orderBy('date','desc').limit(limit) *)
(* with offset 0 and no filter.  Firestore breaks ties of date by document *)
(* name in the same direction; the names are the decimal ids.  The callers *)
(* modelled here sum, count and take a maximum, so the answer is a set.    *)
(***************************************************************************)
DateKey(d) == (d.year * 12 + (d.month - 1)) * 31 + (d.day - 1)
GetUserActivities(docs, limit) ==
    IF Cardinality(docs) <= limit THEN docs
    ELSE \* the `limit` first documents in the order (date desc, id desc)
         LET dates == { DateKey(a.date) : a \in docs }
             cut == CHOOSE d \in dates :
                      /\ Cardinality({ a \in docs : DateKey(a.date) > d }) < limit
                      /\ Cardinality({ a \in docs : DateKey(a.date) >= d }) >= limit
             newer == { a \in docs : DateKey(a.date) > cut }
             tiedIds == { a.id : a \in { b \in docs : DateKey(b.date) = cut } }
             need == limit - Cardinality(newer)
             idCut == CHOOSE t \in tiedIds :
                        Cardinality({ x \in tiedIds : x >= t }) = need
         IN  newer \cup { a \in docs : DateKey(a.date) = cut /\ a.id >= idCut }

(***************************************************************************)
(* Seasons.                                                                *)
(***************************************************************************)
GetCurrentSeason(t) ==
    LET month == GetMonth(t) + 1
    IN  IF month >= 3 /\ month <= 5 THEN "Spring"
        ELSE IF month >= 6 /\ month <= 8 THEN "Summer"
        ELSE IF month >= 9 /\ month <= 11 THEN "Fall"
        ELSE "Winter"

IsInSeason(date, season) ==
    LET month == date.month
    IN  CASE season = "Spring" -> month >= 3 /\ month <= 5
          [] season = "Summer" -> month >= 6 /\ month <= 8
          [] season = "Fall"   -> month >= 9 /\ month <= 11
          [] season = "Winter" -> month = 12 \/ month <= 2
          [] OTHER -> FALSE

GetSeasonStartDate(season, year) ==
    LET startMonth == CASE season = "Spring" -> 3
                        [] season = "Summer" -> 6
                        [] season = "Fall"   -> 9
                        [] season = "Winter" -> 12
                        [] OTHER -> 1
    IN  NewDate(year, startMonth - 1, 1)

GetSeasonEndDate(season, year) ==
    LET endMonth == CASE season = "Spring" -> 5
                      [] season = "Summer" -> 8
                      [] season = "Fall"   -> 11
                      [] season = "Winter" -> 2
                      [] OTHER -> 12
        endYear == IF season = "Winter" THEN year + 1 ELSE year
    IN  NewDate(endYear, endMonth, 0)

(***************************************************************************)
(* Goal documents.  The document id `monthly_${year}_${month}` /           *)
(* `seasonal_${year}_${season}` is the triple of its parts: the format is  *)
(* injective on them.  A call answers [store, goal]: the goals collection  *)
(* after the call and the goal it returns.                                 *)
(***************************************************************************)
MonthlyGoalId(year, month) == <<"monthly", year, month>>
SeasonalGoalId(year, season) == <<"seasonal", year, season>>

\* Mutant: the document is added under an id of its own (the creation time
\* stands for the generated id) instead of being set at the key.
GoalRefAdd(store, id, doc) ==
    [k \in DOMAIN store \cup {<<id, doc.createdAt>>} |->
        IF k = <<id, doc.createdAt>> THEN doc ELSE store[k]]

GoalRefSet(store, id, doc) ==
    [k \in DOMAIN store \cup {id} |-> IF k = id THEN doc ELSE store[k]]

\* Mutant: the goal is written on every call, whether or not it exists.
GetOrCreateMonthlyGoalOverwrite(store, userId, month, year, now) ==
    LET id == MonthlyGoalId(year, month)
        defaultGoal ==
            [id |-> id,
             userId |-> userId,
             type |-> "monthly",
             target |-> DefaultMonthlyTarget,
             current |-> 0,
             startDate |-> NewDate(year, month - 1, 1),
             endDate |-> NewDate(year, month, 0),
             isCompleted |-> FALSE,
             createdAt |-> DateNow(now),
             updatedAt |-> DateNow(now),
             month |-> month,
             year |-> year]
    IN  [store |-> GoalRefSet(store, id, defaultGoal), goal |-> defaultGoal]

GetOrCreateMonthlyGoal(store, userId, month, year, now) ==
    LET id == MonthlyGoalId(year, month)
        defaultGoal ==
            [id |-> id,
             userId |-> userId,
             type |-> "monthly",
             target |-> DefaultMonthlyTarget,
             current |-> 0,
             startDate |-> NewDate(year, month - 1, 1),
             endDate |-> NewDate(year, month, 0),
             isCompleted |-> FALSE,
             createdAt |-> DateNow(now),
             updatedAt |-> DateNow(now),
             month |-> month,
             year |-> year]
    IN  IF id \in DOMAIN store
        THEN [store |-> store, goal |-> store[id]]
        ELSE [store |-> GoalRefSet(store, id, defaultGoal), goal |-> defaultGoal]

GetOrCreateSeasonalGoal(store, userId, season, year, now) ==
    LET id == SeasonalGoalId(year, season)
        defaultGoal ==
            [id |-> id,
             userId |-> userId,
             type |-> "seasonal",
             target |-> DefaultSeasonalTarget,
             current |-> 0,
             startDate |-> GetSeasonStartDate(season, year),
             endDate |-> GetSeasonEndDate(season, year),
             isCompleted |-> FALSE,
             createdAt |-> DateNow(now),
             updatedAt |-> DateNow(now),
             season |-> season,
             year |-> year]
    IN  IF id \in DOMAIN store
        THEN [store |-> store, goal |-> store[id]]
        ELSE [store |-> GoalRefSet(store, id, defaultGoal), goal |-> defaultGoal]

(***************************************************************************)
(* The aggregates of updateUserProgress over the loaded activities.        *)
(***************************************************************************)
SumDistance(acts) ==
    LET ds == { a.distance : a \in acts }
    IN  SumFn([d \in ds |-> d * Cardinality({ a \in acts : a.distance = d })])

\* activity.pace || 0
PaceOrZero(a) == IF a.pace = Absent THEN 0 ELSE Get(a.pace)

SumPace(acts) ==
    LET ps == { PaceOrZero(a) : a \in acts }
    IN  SumFn([p \in ps |-> p * Cardinality({ a \in acts : PaceOrZero(a) = p })])

\* Mutant: the year of the activity is not compared.
MonthlyActivitiesAnyYear(acts, currentMonth, currentYear) ==
    { a \in acts : a.date.month = currentMonth }

MonthlyActivities(acts, currentMonth, currentYear) ==
    { a \in acts : a.date.month = currentMonth /\ a.date.year = currentYear }

SeasonalActivities(acts, currentSeason) ==
    { a \in acts : IsInSeason(a.date, currentSeason) }

AveragePace(acts) ==
    IF Cardinality(acts) > 0 THEN SumPace(acts) \div Cardinality(acts) ELSE 0

\* Mutant: Math.max without the trailing 0 is -Infinity on an empty list.
LongestRunUnfloored(acts) ==
    IF acts = {} THEN -1 ELSE Max({ a.distance : a \in acts })

LongestRun(acts) == Max({ a.distance : a \in acts } \cup {0})

\* (mileage / target) * 100, in tenths of a percent.
ProgressPct(mileage, target) == (mileage * 1000) \div target

(***************************************************************************)
(* updateUserProgress(userId) run at clock tick `now` against the          *)
(* activities and goals collections of the user: the goals collection      *)
(* after it, the Progress it persists and returns, and the ids of the two  *)
(* goals it resolved.                                                      *)
(***************************************************************************)
\* Lines 204-250 with the two readings of the clock: `now` (line 204) and
\* the season getCurrentSeason() derived from a Date of its own (line 348).
ProgressWith(userId, acts, monthlyGoal, seasonalGoal, now, currentSeason) ==
    LET currentMonth == GetMonth(now) + 1
        currentYear == GetFullYear(now)
        monthlyMileage == SumDistance(MonthlyActivities(acts, currentMonth, currentYear))
        seasonalMileage == SumDistance(SeasonalActivities(acts, currentSeason))
    IN  [userId |-> userId,
         monthlyMileage |-> monthlyMileage,
         seasonalMileage |-> seasonalMileage,
         monthlyGoal |-> monthlyGoal.target,
         seasonalGoal |-> seasonalGoal.target,
         monthlyProgress |-> ProgressPct(monthlyMileage, monthlyGoal.target),
         seasonalProgress |-> ProgressPct(seasonalMileage, seasonalGoal.target),
         lastUpdated |-> DateNow(now),
         totalActivities |-> Cardinality(acts),
         averagePace |-> AveragePace(acts),
         longestRun |-> LongestRun(acts)]

\* The Progress of a run during which the clock does not advance.
ProgressOf(userId, acts, monthlyGoal, seasonalGoal, now) ==
    ProgressWith(userId, acts, monthlyGoal, seasonalGoal, now, GetCurrentSeason(now))

\* Mutant: the mileage of the run is added to the persisted Progress instead of
\* replacing it.
UpdateUserProgressAtIncremental(userId, docs, store, now) ==
    LET acts == GetUserActivities(docs, ProgressQueryLimit)
        m == GetOrCreateMonthlyGoal(store, userId, GetMonth(now) + 1, GetFullYear(now), now)
        s == GetOrCreateSeasonalGoal(m.store, userId, GetCurrentSeason(now),
                                     GetFullYear(now), now)
        p == ProgressOf(userId, acts, m.goal, s.goal, now)
        before == IF progress[userId] = Absent THEN 0
                  ELSE Get(progress[userId]).monthlyMileage
    IN  [store |-> s.store,
         monthlyGoal |-> m.goal,
         seasonalGoal |-> s.goal,
         progress |-> [p EXCEPT !.monthlyMileage = before + p.monthlyMileage]]

UpdateUserProgressAt(userId, docs, store, now) ==
    LET acts == GetUserActivities(docs, ProgressQueryLimit)
        m == GetOrCreateMonthlyGoal(store, userId, GetMonth(now) + 1, GetFullYear(now), now)
        s == GetOrCreateSeasonalGoal(m.store, userId, GetCurrentSeason(now),
                                     GetFullYear(now), now)
    IN  [store |-> s.store,
         monthlyGoal |-> m.goal,
         seasonalGoal |-> s.goal,
         progress |-> ProgressOf(userId, acts, m.goal, s.goal, now)]

(***************************************************************************)
(* The state after construction: empty stores, no Strava token held.       *)
(***************************************************************************)
NoCall == [op |-> "none"]

Idle == [pc |-> "idle"]

InitAt(U, C, t) ==
    /\ clock = t
    /\ token = Absent
    /\ activities = [u \in U |-> {}]
    /\ goals = [u \in U |-> <<>>]
    /\ progress = [u \in U |-> Absent]
    /\ adminConfig = Absent
    /\ users = <<>>
    /\ ret = NoCall
    /\ calls = [c \in C |-> Idle]
    /\ rootActivities = <<>>

InitWith(U, C) == InitAt(U, C, 0)

InitFor(U) == InitWith(U, {})

Init == InitFor(Users)

\* The user ids the handlers are called with.
UserIds == DOMAIN activities

\* Time passes.
TickTo(last) ==
    /\ clock < last
    /\ clock' = clock + 1
    /\ UNCHANGED <<rootActivities, token, activities, goals, progress, adminConfig, users, ret, calls>>

Tick == TickTo(MaxClock)

(***************************************************************************)
(* AuthService.getTokens: the OAuth callback of athlete `a`.  The service  *)
(* is a singleton, so the token it holds is the one of the last login.     *)
(* Of the user document the model keeps id, role, isActive and whether the *)
(* statistics job has written to it; the token fields and the timestamps   *)
(* are left out.                                                           *)
(***************************************************************************)
GetTokens(a) ==
    /\ token' = Some(a)
    /\ users' = IF a \in DOMAIN users THEN users
                ELSE [v \in DOMAIN users \cup {a} |->
                        IF v = a
                        THEN [id |-> a, role |-> "user", isActive |-> TRUE,
                              hasStats |-> FALSE]
                        ELSE users[v]]
    /\ UNCHANGED <<rootActivities, clock, activities, goals, progress, adminConfig, ret, calls>>

(***************************************************************************)
(* updateUserProgress(userId) and getUserProgress(userId).                 *)
(***************************************************************************)
ProgressRet(op, u, r) ==
    [op |-> op, user |-> u, ok |-> TRUE, cached |-> FALSE,
     monthlyGoal |-> r.monthlyGoal,
     seasonalGoal |-> r.seasonalGoal,
     value |-> r.progress]

\* Mutant: the activities of every user are loaded.
UpdateUserProgressAllUsers(u) ==
    LET r == UpdateUserProgressAt(u, UNION { activities[v] : v \in DOMAIN activities },
                                  goals[u], clock)
    IN  /\ goals' = [goals EXCEPT ![u] = r.store]
        /\ progress' = [progress EXCEPT ![u] = Some(r.progress)]
        /\ ret' = ProgressRet("updateUserProgress", u, r)
        /\ UNCHANGED <<rootActivities, clock, token, activities, adminConfig, users, calls>>

UpdateUserProgress(u) ==
    LET r == UpdateUserProgressAt(u, activities[u], goals[u], clock)
    IN  /\ goals' = [goals EXCEPT ![u] = r.store]
        /\ progress' = [progress EXCEPT ![u] = Some(r.progress)]
        /\ ret' = ProgressRet("updateUserProgress", u, r)
        /\ UNCHANGED <<rootActivities, clock, token, activities, adminConfig, users, calls>>

\* Mutant: the persisted document is ignored and the Progress recomputed.
GetUserProgressRecompute(u) ==
    LET r == UpdateUserProgressAt(u, activities[u], goals[u], clock)
    IN  /\ goals' = [goals EXCEPT ![u] = r.store]
        /\ progress' = [progress EXCEPT ![u] = Some(r.progress)]
        /\ ret' = ProgressRet("getUserProgress", u, r)
        /\ UNCHANGED <<rootActivities, clock, token, activities, adminConfig, users, calls>>

GetUserProgress(u) ==
    IF progress[u] # Absent
    THEN /\ ret' = [op |-> "getUserProgress", user |-> u, ok |-> TRUE,
                    cached |-> TRUE, value |-> Get(progress[u])]
         /\ UNCHANGED <<rootActivities, clock, token, activities, goals, progress, adminConfig, users, calls>>
    ELSE LET r == UpdateUserProgressAt(u, activities[u], goals[u], clock)
         IN  /\ goals' = [goals EXCEPT ![u] = r.store]
             /\ progress' = [progress EXCEPT ![u] = Some(r.progress)]
             /\ ret' = ProgressRet("getUserProgress", u, r)
             /\ UNCHANGED <<rootActivities, clock, token, activities, adminConfig, users, calls>>

(***************************************************************************)
(* syncActivities(userId): the first page of the token holder's Strava     *)
(* activities; Run / Walk / Hike not yet stored are converted and stored,  *)
(* then the progress is recomputed.                                        *)
(***************************************************************************)
\* Mutant: every Run / Walk / Hike of the page is converted and stored.
SyncedDocsAll(docs, page) ==
    { ConvertToActivitySummary(activity) :
        activity \in { x \in page : x.type \in {"Run", "Walk", "Hike"} } }

SyncedDocs(docs, page) ==
    LET stored == { d.id : d \in docs }
    IN  { ConvertToActivitySummary(activity) :
            activity \in { x \in page : /\ x.type \in {"Run", "Walk", "Hike"}
                                        /\ x.id \notin stored } }

\* Mutant: the resolved monthly goal is brought up to date with the mileage.
SyncActivitiesPageTracking(u, page) ==
    LET new == SyncedDocs(activities[u], page)
        docs == activities[u] \cup new
        r == UpdateUserProgressAt(u, docs, goals[u], clock)
        id == r.monthlyGoal.id
    IN  /\ activities' = [activities EXCEPT ![u] = docs]
        /\ goals' = [goals EXCEPT ![u] =
                       [r.store EXCEPT ![id].current = r.progress.monthlyMileage,
                                       ![id].isCompleted =
                                           r.progress.monthlyMileage >= r.store[id].target]]
        /\ progress' = [progress EXCEPT ![u] = Some(r.progress)]
        /\ ret' = [op |-> "syncActivities", user |-> u, ok |-> TRUE,
                   value |-> [synced |-> Cardinality(new), total |-> Cardinality(page)]]
        /\ UNCHANGED <<rootActivities, clock, token, adminConfig, users, calls>>

SyncActivitiesPage(u, page) ==
    LET new == SyncedDocs(activities[u], page)
        docs == activities[u] \cup new
        r == UpdateUserProgressAt(u, docs, goals[u], clock)
    IN  /\ activities' = [activities EXCEPT ![u] = docs]
        /\ goals' = [goals EXCEPT ![u] = r.store]
        /\ progress' = [progress EXCEPT ![u] = Some(r.progress)]
        /\ ret' = [op |-> "syncActivities", user |-> u, ok |-> TRUE,
                   value |-> [synced |-> Cardinality(new), total |-> Cardinality(page)]]
        /\ UNCHANGED <<rootActivities, clock, token, adminConfig, users, calls>>

SyncActivitiesNoToken(u) ==
    /\ token = Absent
    /\ ret' = [op |-> "syncActivities", user |-> u, ok |-> FALSE,
               error |-> "Failed to sync activities"]
    /\ UNCHANGED <<rootActivities, clock, token, activities, goals, progress, adminConfig, users, calls>>

SyncActivities(u) ==
    \/ SyncActivitiesNoToken(u)
    \/ /\ token # Absent
       /\ \E page \in StravaPages(Get(token)) : SyncActivitiesPage(u, page)

(***************************************************************************)
(* updateActivity(userId, activityId, updates) and deleteActivity.         *)
(***************************************************************************)
ActivityIds == { x.id : x \in UNION { StravaActivities(a) : a \in Users } }

ApplyUpdates(doc, updates) ==
    [f \in DOMAIN doc |->
        IF f \in DOMAIN updates /\ f # "id" THEN updates[f] ELSE doc[f]]

UpdateActivity(u, activityId, updates) ==
    IF \A d \in activities[u] : d.id # activityId
    THEN \* DocumentReference.update() rejects when the document is missing
         /\ ret' = [op |-> "updateActivity", user |-> u, ok |-> FALSE,
                    error |-> "Failed to update activity"]
         /\ UNCHANGED <<rootActivities, clock, token, activities, goals, progress, adminConfig, users, calls>>
    ELSE LET old == CHOOSE d \in activities[u] : d.id = activityId
             updated == ApplyUpdates(old, updates)
             docs == (activities[u] \ {old}) \cup {updated}
             r == UpdateUserProgressAt(u, docs, goals[u], clock)
         IN  /\ activities' = [activities EXCEPT ![u] = docs]
             /\ goals' = [goals EXCEPT ![u] = r.store]
             /\ progress' = [progress EXCEPT ![u] = Some(r.progress)]
             /\ ret' = [op |-> "updateActivity", user |-> u, ok |-> TRUE,
                        value |-> updated]
             /\ UNCHANGED <<rootActivities, clock, token, adminConfig, users, calls>>

DeleteActivity(u, activityId) ==
    LET docs == { d \in activities[u] : d.id # activityId }
        r == UpdateUserProgressAt(u, docs, goals[u], clock)
    IN  /\ activities' = [activities EXCEPT ![u] = docs]
        /\ goals' = [goals EXCEPT ![u] = r.store]
        /\ progress' = [progress EXCEPT ![u] = Some(r.progress)]
        /\ ret' = [op |-> "deleteActivity", user |-> u, ok |-> TRUE]
        /\ UNCHANGED <<rootActivities, clock, token, adminConfig, users, calls>>

(***************************************************************************)
(* AdminService: the configured default targets.                           *)
(***************************************************************************)
GoalSettings == { [defaultMonthly |-> 300, defaultSeasonal |-> 900] }

CreateAdminConfig ==
    /\ adminConfig' = Some([defaultMonthly |-> DefaultMonthlyTarget,
                            defaultSeasonal |-> DefaultSeasonalTarget])
    /\ UNCHANGED <<rootActivities, clock, token, activities, goals, progress, users, ret, calls>>

\* Mutant: the new default is also written into the goals already created.
UpdateGoalsRetroactive(g) ==
    /\ adminConfig # Absent
    /\ adminConfig' = Some(g)
    /\ goals' = [u \in DOMAIN goals |->
                  [k \in DOMAIN goals[u] |->
                     IF goals[u][k].type = "monthly"
                     THEN [goals[u][k] EXCEPT !.target = g.defaultMonthly]
                     ELSE [goals[u][k] EXCEPT !.target = g.defaultSeasonal]]]
    /\ UNCHANGED <<rootActivities, clock, token, activities, progress, users, ret, calls>>

UpdateGoals(g) ==
    IF adminConfig = Absent
    THEN \* DocumentReference.update() rejects when admin/config is missing
         UNCHANGED vars
    ELSE /\ adminConfig' = Some(g)
         /\ UNCHANGED <<rootActivities, clock, token, activities, goals, progress, users, ret, calls>>

Next ==
    \/ Tick
    \/ \E a \in UserIds : GetTokens(a)
    \/ \E u \in UserIds : UpdateUserProgress(u)
    \/ \E u \in UserIds : GetUserProgress(u)
    \/ \E u \in UserIds : SyncActivities(u)
    \/ \E u \in UserIds, id \in ActivityIds, upd \in UpdateBodies : UpdateActivity(u, id, upd)
    \/ \E u \in UserIds, id \in ActivityIds : DeleteActivity(u, id)
    \/ CreateAdminConfig
    \/ \E g \in GoalSettings : UpdateGoals(g)

Spec == Init /\ [][Next]_vars

(***************************************************************************)
(* The long history: login, page-by-page sync and progress updates of a    *)
(* user whose athlete has MaxPages * PerPage activities on Strava.         *)
(***************************************************************************)
InitBulk == InitFor(BulkUsers)

NextBulk ==
    \/ \E a \in UserIds : GetTokens(a)
    \/ \E u \in UserIds : SyncActivities(u)
    \/ \E u \in UserIds : UpdateUserProgress(u)

SpecBulk == InitBulk /\ [][NextBulk]_vars

(***************************************************************************)
(* UserService: updateUser, deleteUser (soft) and hardDeleteUser, and the  *)
(* daily cleanup job.                                                      *)
(***************************************************************************)
UserUpdates == { [role |-> "admin"] }

UpdateUser(userId, updates) ==
    IF userId \notin DOMAIN users
    THEN \* DocumentReference.update() rejects when the document is missing
         /\ ret' = [op |-> "updateUser", user |-> userId, ok |-> FALSE,
                    error |-> "Failed to update user"]
         /\ UNCHANGED <<rootActivities, clock, token, activities, goals, progress, adminConfig, users, calls>>
    ELSE /\ users' = [users EXCEPT ![userId] =
                        [f \in DOMAIN users[userId] |->
                           IF f \in DOMAIN updates /\ f # "id"
                           THEN updates[f] ELSE users[userId][f]]]
         /\ ret' = [op |-> "updateUser", user |-> userId, ok |-> TRUE]
         /\ UNCHANGED <<rootActivities, clock, token, activities, goals, progress, adminConfig, calls>>

DeleteUser(userId) ==
    IF userId \notin DOMAIN users
    THEN /\ ret' = [op |-> "deleteUser", user |-> userId, ok |-> FALSE,
                    error |-> "Failed to delete user"]
         /\ UNCHANGED <<rootActivities, clock, token, activities, goals, progress, adminConfig, users, calls>>
    ELSE /\ users' = [users EXCEPT ![userId].isActive = FALSE]
         /\ ret' = [op |-> "deleteUser", user |-> userId, ok |-> TRUE]
         /\ UNCHANGED <<rootActivities, clock, token, activities, goals, progress, adminConfig, calls>>

\* One batch: the user document and every document of the user's activities,
\* progress and goals collections.
HardDeleteUser(userId) ==
    /\ users' = [v \in DOMAIN users \ {userId} |-> users[v]]
    /\ activities' = [activities EXCEPT ![userId] = {}]
    /\ progress' = [progress EXCEPT ![userId] = Absent]
    /\ goals' = [goals EXCEPT ![userId] = <<>>]
    /\ ret' = [op |-> "hardDeleteUser", user |-> userId, ok |-> TRUE]
    /\ UNCHANGED <<rootActivities, clock, token, adminConfig, calls>>

\* cleanupOldData deletes from the top-level activities, sessions and errorLogs
\* collections and writes activity statistics into the documents of the active
\* users; the documents modelled here omit the statistics, and the collections
\* under users/{u} are not touched.
CleanupOldData ==
    /\ users' = [v \in DOMAIN users |->
                   IF users[v].isActive
                   THEN [users[v] EXCEPT !.hasStats = TRUE]
                   ELSE users[v]]
    /\ UNCHANGED <<rootActivities, clock, token, activities, goals, progress, adminConfig, ret, calls>>

(***************************************************************************)
(* The progress routes: authenticateToken, requireUserOrAdmin and the      *)
(* controller.  A request is what the controller is handed: req.user as    *)
(* authenticateToken attached it, or undefined, and req.params.userId      *)
(* where the handler is mounted under a path with :userId.                 *)
(***************************************************************************)
Requests ==
    { [user |-> usr, params |-> [userId |-> par]] :
        usr \in {Absent} \cup { Some([id |-> i, role |-> "user"]) : i \in HttpUsers },
        par \in {Absent} \cup { Some(i) : i \in HttpUsers } }

\* req.user?.id || req.params.userId
RequestUserId(req) ==
    IF req.user # Absent /\ Get(req.user).id # ""
    THEN Some(Get(req.user).id)
    ELSE req.params.userId

Respond(op, status, message) ==
    /\ ret' = [op |-> op, ok |-> FALSE, status |-> status, message |-> message]
    /\ UNCHANGED <<rootActivities, clock, token, activities, goals, progress, adminConfig, users, calls>>

\* Mutant: without the guard the service is called with an undefined user id,
\* which Firestore rejects after the controller has reached the store.
GetUserProgressControllerUnguarded(req) ==
    IF RequestUserId(req) = Absent
    THEN Respond("GET /progress/current", 500, "Failed to get progress")
    ELSE GetUserProgress(Get(RequestUserId(req)))

GetUserProgressController(req) ==
    IF RequestUserId(req) = Absent
    THEN Respond("GET /progress/current", 400, "User ID is required")
    ELSE GetUserProgress(Get(RequestUserId(req)))

UpdateUserProgressController(req) ==
    IF RequestUserId(req) = Absent
    THEN Respond("POST /progress/update", 400, "User ID is required")
    ELSE UpdateUserProgress(Get(RequestUserId(req)))

\* authenticateToken followed by requireRole(['user', 'admin']): the request
\* the controller gets, or {} when a middleware has answered.  `bearer` is the
\* user id a valid access token was signed for, or {} without a token.
\* Mutant: the isActive flag of the user document is not looked at.
AuthenticatedAnyStatus(bearer) ==
    IF bearer = Absent \/ Get(bearer) \notin DOMAIN users THEN Absent
    ELSE LET user == users[Get(bearer)]
         IN  IF user.role \notin {"user", "admin"} THEN Absent
             ELSE Some([id |-> user.id, role |-> user.role])

Authenticated(bearer) ==
    IF bearer = Absent \/ Get(bearer) \notin DOMAIN users THEN Absent
    ELSE LET user == users[Get(bearer)]
         IN  IF ~user.isActive \/ user.role \notin {"user", "admin"} THEN Absent
             ELSE Some([id |-> user.id, role |-> user.role])

Rejected(op, bearer) ==
    IF bearer = Absent THEN Respond(op, 401, "Access token is required")
    ELSE IF Get(bearer) \notin DOMAIN users THEN Respond(op, 401, "User not found")
    ELSE IF ~users[Get(bearer)].isActive
    THEN Respond(op, 401, "User account is deactivated")
    ELSE Respond(op, 403, "Access denied")

\* GET /activities/progress/current and POST /activities/progress/update.  The
\* paths have no :userId, so a user id the caller names (in the query or the
\* body) is not in req.params.
RouteProgressCurrent(bearer, named) ==
    IF Authenticated(bearer) = Absent
    THEN Rejected("GET /progress/current", bearer)
    ELSE GetUserProgressController(
             [user |-> Authenticated(bearer), params |-> [userId |-> Absent]])

RouteProgressUpdate(bearer, named) ==
    IF Authenticated(bearer) = Absent
    THEN Rejected("POST /progress/update", bearer)
    ELSE UpdateUserProgressController(
             [user |-> Authenticated(bearer), params |-> [userId |-> Absent]])

Bearers == {Absent} \cup { Some(i) : i \in HttpUsers }

InitHttp == InitFor(HttpUsers)

NextHttp ==
    \/ \E a \in UserIds : GetTokens(a)
    \/ \E u \in UserIds : SyncActivities(u)
    \/ \E u \in UserIds, upd \in UserUpdates : UpdateUser(u, upd)
    \/ \E u \in UserIds : DeleteUser(u)
    \/ \E u \in UserIds : HardDeleteUser(u)
    \/ CleanupOldData
    \/ \E req \in Requests : GetUserProgressController(req)
    \/ \E req \in Requests : UpdateUserProgressController(req)
    \/ \E b \in Bearers, named \in Bearers : RouteProgressCurrent(b, named)
    \/ \E b \in Bearers, named \in Bearers : RouteProgressUpdate(b, named)

SpecHttp == InitHttp /\ [][NextHttp]_vars

(***************************************************************************)
(* The calls step by step.  Every await of a store operation is a point    *)
(* where another request can run: a call in flight is at the store         *)
(* operation it has issued (pc), and a step is that operation taking       *)
(* effect together with the code up to the next one.  The locals of a call *)
(* are the activities it loaded, the clock it read at line 204, the goals  *)
(* it resolved and the Progress it built; syncActivities also keeps the    *)
(* fetched activities still to process and its counts.                     *)
(***************************************************************************)
Call(op, u, pc) ==
    [pc |-> pc, op |-> op, user |-> u, acts |-> {}, now |-> 0, season |-> "",
     monthly |-> Absent, seasonal |-> Absent, value |-> Absent,
     todo |-> {}, cur |-> Absent, synced |-> 0, total |-> 0]

\* The message of the catch block of each operation.
ErrorOf(op) ==
    CASE op = "updateUserProgress" -> "Failed to update progress"
      [] op = "getUserProgress" -> "Failed to get progress"
      [] op = "deleteActivity" -> "Failed to delete activity"
      [] op = "syncActivities" -> "Failed to sync activities"

Frame(c, call) ==
    /\ calls' = [calls EXCEPT ![c] = call]
    /\ UNCHANGED <<rootActivities, clock, token, activities, goals, progress, adminConfig, users, ret>>

BeginUpdateUserProgress(c, u) ==
    /\ calls[c] = Idle
    /\ Frame(c, Call("updateUserProgress", u, "query"))

BeginGetUserProgress(c, u) ==
    /\ calls[c] = Idle
    /\ Frame(c, Call("getUserProgress", u, "progressGet"))

BeginDeleteActivity(c, u, activityId) ==
    /\ calls[c] = Idle
    /\ Frame(c, [Call("deleteActivity", u, "delete") EXCEPT !.cur = Some(activityId)])

BeginSyncActivities(c, u) ==
    /\ calls[c] = Idle
    /\ IF token = Absent
       THEN /\ ret' = [op |-> "syncActivities", user |-> u, ok |-> FALSE,
                       error |-> ErrorOf("syncActivities"), at |-> "token"]
            /\ UNCHANGED <<rootActivities, clock, token, activities, goals, progress, adminConfig,
                           users, calls>>
       ELSE Frame(c, Call("syncActivities", u, "fetch"))

\* getUserProgress: the read of progress/current.
ProgressGet(c) ==
    LET call == calls[c]
        u == call.user
    IN  /\ call.pc = "progressGet"
        /\ IF progress[u] # Absent
           THEN /\ ret' = [op |-> "getUserProgress", user |-> u, ok |-> TRUE,
                           cached |-> TRUE, value |-> Get(progress[u])]
                /\ calls' = [calls EXCEPT ![c] = Idle]
                /\ UNCHANGED <<rootActivities, clock, token, activities, goals, progress, adminConfig,
                               users>>
           ELSE Frame(c, [call EXCEPT !.pc = "query"])

\* deleteActivity: the delete of the activity document.
ActivityDelete(c) ==
    LET call == calls[c]
        u == call.user
    IN  /\ call.pc = "delete"
        /\ activities' = [activities EXCEPT
                            ![u] = { d \in @ : d.id # Get(call.cur) }]
        /\ calls' = [calls EXCEPT ![c] = [call EXCEPT !.pc = "query", !.cur = Absent]]
        /\ UNCHANGED <<rootActivities, clock, token, goals, progress, adminConfig, users, ret>>

\* syncActivities: the loop goes on with the next Run / Walk / Hike of the
\* fetched activities, or ends and updateUserProgress starts.
SyncPc(todo) ==
    IF \E x \in todo : x.type \in {"Run", "Walk", "Hike"} THEN "exists" ELSE "query"

StravaGet(c) ==
    LET call == calls[c]
    IN  /\ call.pc = "fetch"
        /\ token # Absent
        /\ \E page \in StravaPages(Get(token)) :
             Frame(c, [call EXCEPT !.todo = page, !.total = Cardinality(page),
                                   !.pc = SyncPc(page)])

ActivityExists(c) ==
    LET call == calls[c]
        u == call.user
    IN  /\ call.pc = "exists"
        /\ \E x \in { y \in call.todo : y.type \in {"Run", "Walk", "Hike"} } :
             IF \E d \in activities[u] : d.id = x.id
             THEN Frame(c, [call EXCEPT !.todo = @ \ {x}, !.pc = SyncPc(call.todo \ {x})])
             ELSE Frame(c, [call EXCEPT !.cur = Some(x), !.pc = "set"])

ActivitySet(c) ==
    LET call == calls[c]
        u == call.user
        x == Get(call.cur)
    IN  /\ call.pc = "set"
        /\ activities' = [activities EXCEPT
                            ![u] = { d \in @ : d.id # x.id }
                                     \cup {ConvertToActivitySummary(x)}]
        /\ calls' = [calls EXCEPT ![c] =
                       [call EXCEPT !.todo = @ \ {x}, !.cur = Absent,
                                    !.synced = @ + 1, !.pc = SyncPc(call.todo \ {x})]]
        /\ UNCHANGED <<rootActivities, clock, token, goals, progress, adminConfig, users, ret>>

\* updateUserProgress, line 202: the activities query; the clock is read when
\* it has answered (line 204).
ActivitiesQuery(c) ==
    LET call == calls[c]
    IN  /\ call.pc = "query"
        /\ Frame(c, [call EXCEPT
                        !.acts = GetUserActivities(activities[call.user], ProgressQueryLimit),
                        !.now = clock,
                        !.pc = "season"])

\* Line 218: getCurrentSeason() makes a Date of its own (line 348), after the
\* monthly activities have been filtered and summed; the clock may have
\* advanced since line 204.
CurrentSeasonRead(c) ==
    LET call == calls[c]
    IN  /\ call.pc = "season"
        /\ Frame(c, [call EXCEPT !.season = GetCurrentSeason(clock),
                                 !.pc = "monthlyGet"])

\* The Progress built at lines 238-250 once both goals are resolved.
BuiltProgress(call, seasonalGoal) ==
    [ProgressWith(call.user, call.acts, Get(call.monthly), seasonalGoal, call.now,
                  call.season)
       EXCEPT !.lastUpdated = DateNow(clock)]

\* Mutant: a goal document that exists is not seen.
MonthlyGoalGetBlind(c) ==
    LET call == calls[c]
        u == call.user
        month == GetMonth(call.now) + 1
        year == GetFullYear(call.now)
    IN  /\ call.pc = "monthlyGet"
        /\ Frame(c, [call EXCEPT
                 !.monthly = Some(GetOrCreateMonthlyGoal(<<>>, u, month, year, clock).goal),
                 !.pc = "monthlySet"])

\* getOrCreateMonthlyGoal, line 283: the read of the goal document.
MonthlyGoalGet(c) ==
    LET call == calls[c]
        u == call.user
        month == GetMonth(call.now) + 1
        year == GetFullYear(call.now)
        id == MonthlyGoalId(year, month)
    IN  /\ call.pc = "monthlyGet"
        /\ IF id \in DOMAIN goals[u]
           THEN Frame(c, [call EXCEPT !.monthly = Some(goals[u][id]),
                                      !.pc = "seasonalGet"])
           ELSE Frame(c, [call EXCEPT
                    !.monthly = Some(GetOrCreateMonthlyGoal(<<>>, u, month, year, clock).goal),
                    !.pc = "monthlySet"])

\* Line 305: the write of the default goal.
MonthlyGoalSet(c) ==
    LET call == calls[c]
        u == call.user
        goal == Get(call.monthly)
    IN  /\ call.pc = "monthlySet"
        /\ goals' = [goals EXCEPT ![u] = GoalRefSet(@, goal.id, goal)]
        /\ calls' = [calls EXCEPT ![c] = [call EXCEPT !.pc = "seasonalGet"]]
        /\ UNCHANGED <<rootActivities, clock, token, activities, progress, adminConfig, users, ret>>

SeasonalGoalGet(c) ==
    LET call == calls[c]
        u == call.user
        season == call.season
        year == GetFullYear(call.now)
        id == SeasonalGoalId(year, season)
    IN  /\ call.pc = "seasonalGet"
        /\ IF id \in DOMAIN goals[u]
           THEN Frame(c, [call EXCEPT !.seasonal = Some(goals[u][id]),
                                      !.value = Some(BuiltProgress(call, goals[u][id])),
                                      !.pc = "progressSet"])
           ELSE Frame(c, [call EXCEPT
                    !.seasonal = Some(GetOrCreateSeasonalGoal(<<>>, u, season, year, clock).goal),
                    !.pc = "seasonalSet"])

SeasonalGoalSet(c) ==
    LET call == calls[c]
        u == call.user
        goal == Get(call.seasonal)
    IN  /\ call.pc = "seasonalSet"
        /\ goals' = [goals EXCEPT ![u] = GoalRefSet(@, goal.id, goal)]
        /\ calls' = [calls EXCEPT ![c] =
                       [call EXCEPT !.value = Some(BuiltProgress(call, goal)),
                                    !.pc = "progressSet"]]
        /\ UNCHANGED <<rootActivities, clock, token, activities, progress, adminConfig, users, ret>>

\* What the operation returns once updateUserProgress has returned.
Returned(call) ==
    CASE call.op \in {"updateUserProgress", "getUserProgress"} ->
           ProgressRet(call.op, call.user,
                       [monthlyGoal |-> Get(call.monthly),
                        seasonalGoal |-> Get(call.seasonal),
                        progress |-> Get(call.value)])
      [] call.op = "deleteActivity" ->
           [op |-> call.op, user |-> call.user, ok |-> TRUE]
      [] call.op = "syncActivities" ->
           [op |-> call.op, user |-> call.user, ok |-> TRUE,
            value |-> [synced |-> call.synced, total |-> call.total]]

\* Mutant: the write merges the mileage fields into the persisted document.
ProgressDocMerge(old, new) ==
    IF old = Absent THEN Some(new)
    ELSE Some([Get(old) EXCEPT !.monthlyMileage = new.monthlyMileage,
                               !.seasonalMileage = new.seasonalMileage,
                               !.lastUpdated = new.lastUpdated])

\* Line 253: set(progress) replaces the document.
ProgressDocSet(old, new) == Some(new)

ProgressSet(c) ==
    LET call == calls[c]
        u == call.user
    IN  /\ call.pc = "progressSet"
        /\ progress' = [progress EXCEPT ![u] = ProgressDocSet(@, Get(call.value))]
        /\ ret' = Returned(call)
        /\ calls' = [calls EXCEPT ![c] = Idle]
        /\ UNCHANGED <<rootActivities, clock, token, activities, goals, adminConfig, users>>

\* Mutant: a failed store operation is attempted again.
StoreFailsRetry(c) ==
    LET call == calls[c]
    IN  /\ call.pc # "idle"
        /\ Frame(c, Call(call.op, call.user, "query"))

\* The store operation (or the Strava request) the call waits for fails: the
\* catch blocks turn the error into the message of the operation.
StoreFails(c) ==
    LET call == calls[c]
    IN  /\ call.pc \notin {"idle", "season"}
        /\ ret' = [op |-> call.op, user |-> call.user, ok |-> FALSE,
                   error |-> ErrorOf(call.op), at |-> call.pc]
        /\ calls' = [calls EXCEPT ![c] = Idle]
        /\ UNCHANGED <<rootActivities, clock, token, activities, goals, progress, adminConfig, users>>

\* The activity ids the interleaved requests name.
RaceActivityIds == { x.id : x \in UNION { StravaActivities(a) : a \in RaceUsers } }

\* One request at a time: every operation, step by step, with the clock
\* ticking and store operations failing in between.
InitSeq == InitWith(RaceUsers, SeqCallers)

NextSeq ==
    \/ clock < MaxRaceClock /\ Tick
    \/ \E a \in UserIds : GetTokens(a)
    \/ \E c \in SeqCallers, u \in UserIds : BeginUpdateUserProgress(c, u)
    \/ \E c \in SeqCallers, u \in UserIds : BeginGetUserProgress(c, u)
    \/ \E c \in SeqCallers, u \in UserIds, id \in RaceActivityIds :
         BeginDeleteActivity(c, u, id)
    \/ \E c \in SeqCallers, u \in UserIds : BeginSyncActivities(c, u)
    \/ \E c \in SeqCallers : ProgressGet(c)
    \/ \E c \in SeqCallers : ActivityDelete(c)
    \/ \E c \in SeqCallers : StravaGet(c)
    \/ \E c \in SeqCallers : ActivityExists(c)
    \/ \E c \in SeqCallers : ActivitySet(c)
    \/ \E c \in SeqCallers : ActivitiesQuery(c)
    \/ \E c \in SeqCallers : CurrentSeasonRead(c)
    \/ \E c \in SeqCallers : MonthlyGoalGet(c)
    \/ \E c \in SeqCallers : MonthlyGoalSet(c)
    \/ \E c \in SeqCallers : SeasonalGoalGet(c)
    \/ \E c \in SeqCallers : SeasonalGoalSet(c)
    \/ \E c \in SeqCallers : ProgressSet(c)
    \/ \E c \in SeqCallers : StoreFails(c)

SpecSeq == InitSeq /\ [][NextSeq]_vars

\* Two requests at a time: each caller asks for a progress update, the first
\* also for a sync, and their steps interleave in every order.
InitRace == InitWith(RaceUsers, Callers)

NextRace ==
    \/ clock < MaxRaceClock /\ Tick
    \/ \E a \in UserIds : GetTokens(a)
    \/ \E c \in Callers, u \in UserIds : BeginUpdateUserProgress(c, u)
    \/ \E c \in SeqCallers, u \in UserIds : BeginSyncActivities(c, u)
    \/ \E c \in Callers : StravaGet(c)
    \/ \E c \in Callers : ActivityExists(c)
    \/ \E c \in Callers : ActivitySet(c)
    \/ \E c \in Callers : ActivitiesQuery(c)
    \/ \E c \in Callers : CurrentSeasonRead(c)
    \/ \E c \in Callers : MonthlyGoalGet(c)
    \/ \E c \in Callers : MonthlyGoalSet(c)
    \/ \E c \in Callers : SeasonalGoalGet(c)
    \/ \E c \in Callers : SeasonalGoalSet(c)
    \/ \E c \in Callers : ProgressSet(c)
    \/ \E c \in Callers : StoreFails(c)

SpecRace == InitRace /\ [][NextRace]_vars

\* The turn of the season: the server is up on the last tick of February and
\* the clock goes on into March while one request at a time is served, step
\* by step.
LastWinterTick == 3 * TicksPerMonth - 1

InitTurn == InitAt(RaceUsers, SeqCallers, LastWinterTick)

NextTurn ==
    \/ TickTo(LastWinterTick + 1)
    \/ \E a \in UserIds : GetTokens(a)
    \/ \E c \in SeqCallers, u \in UserIds : BeginUpdateUserProgress(c, u)
    \/ \E c \in SeqCallers, u \in UserIds : BeginSyncActivities(c, u)
    \/ \E c \in SeqCallers : StravaGet(c)
    \/ \E c \in SeqCallers : ActivityExists(c)
    \/ \E c \in SeqCallers : ActivitySet(c)
    \/ \E c \in SeqCallers : ActivitiesQuery(c)
    \/ \E c \in SeqCallers : CurrentSeasonRead(c)
    \/ \E c \in SeqCallers : MonthlyGoalGet(c)
    \/ \E c \in SeqCallers : MonthlyGoalSet(c)
    \/ \E c \in SeqCallers : SeasonalGoalGet(c)
    \/ \E c \in SeqCallers : SeasonalGoalSet(c)
    \/ \E c \in SeqCallers : ProgressSet(c)

SpecTurn == InitTurn /\ [][NextTurn]_vars

\* A deletion and a progress update at the same time: the first caller
\* deletes activities, the second asks for progress updates, and their steps
\* interleave in every order; a sync runs while neither is in flight.
InitMutate == InitWith(RaceUsers, Callers)

NextMutate ==
    \/ \E a \in UserIds : GetTokens(a)
    \/ \E u \in UserIds : (\A c \in Callers : calls[c] = Idle) /\ SyncActivities(u)
    \/ \E c \in SeqCallers, u \in UserIds, id \in RaceActivityIds :
         BeginDeleteActivity(c, u, id)
    \/ \E c \in Callers \ SeqCallers, u \in UserIds : BeginUpdateUserProgress(c, u)
    \/ \E c \in Callers : ActivityDelete(c)
    \/ \E c \in Callers : ActivitiesQuery(c)
    \/ \E c \in Callers : CurrentSeasonRead(c)
    \/ \E c \in Callers : MonthlyGoalGet(c)
    \/ \E c \in Callers : MonthlyGoalSet(c)
    \/ \E c \in Callers : SeasonalGoalGet(c)
    \/ \E c \in Callers : SeasonalGoalSet(c)
    \/ \E c \in Callers : ProgressSet(c)

SpecMutate == InitMutate /\ [][NextMutate]_vars

(***************************************************************************)
(* The scheduled Strava sync (jobs): syncAllUsersActivities runs over the  *)
(* active users one after the other; for each, refreshStravaToken when the *)
(* stored token has expired, then syncUserActivities, which writes what    *)
(* Strava returns to the top-level activities collection in one batch.     *)
(* The job is modelled step by step, one awaited operation at a time, with *)
(* logins and user deletions in between.  The token fields and sync stamps *)
(* of the user document are not kept: whether the token has expired         *)
(* (line 368) is an input, and Strava answers with any part of the history *)
(* (the `after` parameter).                                                *)
(***************************************************************************)
CronCallers == {"cron"}

Job(pc) ==
    [pc |-> pc, op |-> "syncAllUsersActivities", docs |-> <<>>, i |-> 0,
     successCount |-> 0, errorCount |-> 0, batch |-> {}]

RECURSIVE SnapshotDocs(_)
SnapshotDocs(S) ==
    IF S = {} THEN <<>>
    ELSE LET d == CHOOSE x \in S : TRUE
         IN  <<d>> \o SnapshotDocs(S \ {d})

\* where('stravaId', '!=', null).where('isActive', '==', true): every user
\* document getTokens writes carries a stravaId.
ActiveStravaUsers == SnapshotDocs({ users[v] : v \in { w \in DOMAIN users : users[w].isActive } })

\* successCount++ after syncUserActivities returned.
UserSucceeded(job) ==
    [job EXCEPT !.successCount = @ + 1, !.i = @ + 1, !.batch = {}]

\* Mutant: the error of one user leaves the loop.
UserFailedRethrow(job) ==
    [job EXCEPT !.errorCount = @ + 1, !.i = Len(job.docs) + 1, !.batch = {}]

\* The catch of the loop body: errorCount++, and the loop goes on.
UserFailed(job) ==
    [job EXCEPT !.errorCount = @ + 1, !.i = @ + 1, !.batch = {}]

JobRet(job) ==
    [op |-> "syncAllUsersActivities", ok |-> TRUE, selected |-> Len(job.docs),
     successCount |-> job.successCount, errorCount |-> job.errorCount]

\* The head of the loop: the next user document, its token expired or not,
\* or the end of the job.
NextUser(c, job) ==
    IF job.i > Len(job.docs)
    THEN /\ ret' = JobRet(job)
         /\ calls' = [calls EXCEPT ![c] = Idle]
    ELSE /\ \E expired \in BOOLEAN :
              calls' = [calls EXCEPT ![c] =
                          [job EXCEPT !.pc = IF expired THEN "refreshPost"
                                             ELSE "stravaGet"]]
         /\ UNCHANGED ret

BeginSyncAllUsersActivities(c) ==
    /\ calls[c] = Idle
    /\ Frame(c, Job("usersQuery"))

SyncAllUsersQuery(c) ==
    LET job == calls[c]
    IN  /\ job.pc = "usersQuery"
        /\ NextUser(c, [job EXCEPT !.docs = ActiveStravaUsers, !.i = 1])
        /\ UNCHANGED <<rootActivities, clock, token, activities, goals, progress,
                       adminConfig, users>>

\* refreshStravaToken: the token request to Strava.
RefreshStravaTokenPost(c) ==
    LET job == calls[c]
    IN  /\ job.pc = "refreshPost"
        /\ Frame(c, [job EXCEPT !.pc = "tokenUpdate"])

\* refreshStravaToken: the update of the user document, which rejects when
\* the document is gone.  The local `user` keeps the token it was read with.
RefreshStravaTokenUpdate(c) ==
    LET job == calls[c]
        user == job.docs[job.i]
    IN  /\ job.pc = "tokenUpdate"
        /\ IF user.id \in DOMAIN users
           THEN /\ calls' = [calls EXCEPT ![c] = [job EXCEPT !.pc = "stravaGet"]]
                /\ UNCHANGED ret
           ELSE NextUser(c, UserFailed(job))
        /\ UNCHANGED <<rootActivities, clock, token, activities, goals, progress,
                       adminConfig, users>>

\* syncUserActivities: the request to Strava with the user's own access token.
SyncUserActivitiesGet(c) ==
    LET job == calls[c]
        user == job.docs[job.i]
    IN  /\ job.pc = "stravaGet"
        /\ \E page \in StravaPages(user.id) :
              IF page = {}
              THEN NextUser(c, UserSucceeded(job))
              ELSE /\ calls' = [calls EXCEPT ![c] =
                                  [job EXCEPT !.pc = "batchCommit", !.batch = page]]
                   /\ UNCHANGED ret
        /\ UNCHANGED <<rootActivities, clock, token, activities, goals, progress,
                       adminConfig, users>>

\* The document batch.set writes for one Strava activity, merged into the
\* stored one.
RootActivity(user, activity) ==
    [id |-> activity.id, userId |-> user.id, stravaId |-> activity.id,
     type |-> activity.type, distance |-> activity.distance,
     movingTime |-> activity.moving_time, startDate |-> activity.start_date]

SyncUserActivitiesCommit(c) ==
    LET job == calls[c]
        user == job.docs[job.i]
        ids == { activity.id : activity \in job.batch }
    IN  /\ job.pc = "batchCommit"
        /\ rootActivities' =
              [id \in DOMAIN rootActivities \cup ids |->
                  IF id \in ids
                  THEN RootActivity(user, CHOOSE activity \in job.batch : activity.id = id)
                  ELSE rootActivities[id]]
        /\ calls' = [calls EXCEPT ![c] = [job EXCEPT !.pc = "syncUpdate"]]
        /\ UNCHANGED <<clock, token, activities, goals, progress, adminConfig, users, ret>>

\* syncUserActivities: the update of lastActivitySync on the user document,
\* which rejects when the document is gone.
SyncUserActivitiesUpdate(c) ==
    LET job == calls[c]
        user == job.docs[job.i]
    IN  /\ job.pc = "syncUpdate"
        /\ NextUser(c, IF user.id \in DOMAIN users THEN UserSucceeded(job)
                       ELSE UserFailed(job))
        /\ UNCHANGED <<rootActivities, clock, token, activities, goals, progress,
                       adminConfig, users>>

\* An awaited operation of the job rejects.  The query of the users is
\* outside the loop, and its failure ends the job in the outer catch; any
\* other failure is caught in the loop body.
SyncAllUsersFails(c) ==
    LET job == calls[c]
    IN  /\ job.pc \in {"usersQuery", "refreshPost", "tokenUpdate", "stravaGet",
                       "batchCommit", "syncUpdate"}
        /\ IF job.pc = "usersQuery"
           THEN /\ ret' = [JobRet(job) EXCEPT !.selected = 0]
                /\ calls' = [calls EXCEPT ![c] = Idle]
           ELSE NextUser(c, UserFailed(job))
        /\ UNCHANGED <<rootActivities, clock, token, activities, goals, progress,
                       adminConfig, users>>

InitCron == InitWith(LoginUsers, CronCallers)

NextCron ==
    \/ \E a \in UserIds : GetTokens(a)
    \/ \E u \in UserIds : DeleteUser(u)
    \/ \E u \in UserIds : HardDeleteUser(u)
    \/ \E c \in CronCallers : BeginSyncAllUsersActivities(c)
    \/ \E c \in CronCallers : SyncAllUsersQuery(c)
    \/ \E c \in CronCallers : RefreshStravaTokenPost(c)
    \/ \E c \in CronCallers : RefreshStravaTokenUpdate(c)
    \/ \E c \in CronCallers : SyncUserActivitiesGet(c)
    \/ \E c \in CronCallers : SyncUserActivitiesCommit(c)
    \/ \E c \in CronCallers : SyncUserActivitiesUpdate(c)
    \/ \E c \in CronCallers : SyncAllUsersFails(c)

SpecCron == InitCron /\ [][NextCron]_vars

\* Logins and syncs of the two athletes, in any order.
LoginActivityIds == { x.id : x \in UNION { StravaActivities(a) : a \in LoginUsers } }

InitLogin == InitFor(LoginUsers)

NextLogin ==
    \/ \E a \in UserIds : GetTokens(a)
    \/ \E u \in UserIds : SyncActivities(u)
    \/ \E u \in UserIds : UpdateUserProgress(u)
    \/ \E u \in UserIds, id \in LoginActivityIds : DeleteActivity(u, id)

SpecLogin == InitLogin /\ [][NextLogin]_vars

(***************************************************************************)
(* The activity endpoints (activity.routes.ts): every route runs           *)
(* authenticateToken, then requireUserOrAdmin, then its controller.  A     *)
(* request carries no Authorization header, or a token signed for a user   *)
(* id that jwt.verify accepts, finds expired, or finds forged.  An error   *)
(* the service throws is the outcome of the request as the service left    *)
(* it: catchAsync forwards it to the application's error handler.          *)
(***************************************************************************)
Headers ==
    {Absent} \cup { Some([id |-> i, state |-> st]) :
                      i \in ApiUsers, st \in {"valid", "expired", "forged"} }

\* parseInt(req.params.activityId): NaN for a path segment that is no number.
ActivityIdParams == {Absent, Some(6), Some(9)}

\* The bodies sent to PUT /:activityId.
AllowedFields == {"name", "type", "distance", "duration", "pace", "elevation", "calories"}

RequestBodies ==
    { [id |-> 9, date |-> [year |-> StartYear, month |-> 1, day |-> 1],
       route |-> Some("edited"), distance |-> 50] }

\* verifyToken: the user id the token was signed for, when jwt.verify accepts it.
VerifyToken(header) ==
    IF header = Absent \/ Get(header).state # "valid" THEN Absent
    ELSE Some(Get(header).id)

\* The answer of authenticateToken / requireRole to a request that does not
\* reach the controller.
AuthenticateToken(op, header) ==
    IF header # Absent /\ Get(header).state = "expired"
    THEN Respond(op, 401, "Token expired")
    ELSE IF header # Absent /\ Get(header).state = "forged"
    THEN Respond(op, 401, "Invalid token")
    ELSE Rejected(op, VerifyToken(header))

\* The request the controller is handed.
RequestOf(header, activityId, body) ==
    [user |-> Authenticated(VerifyToken(header)),
     params |-> [userId |-> Absent, activityId |-> activityId],
     body |-> body]

Passes(header) == Authenticated(VerifyToken(header)) # Absent

SyncActivitiesController(req) ==
    IF RequestUserId(req) = Absent
    THEN Respond("POST /sync", 400, "User ID is required")
    ELSE SyncActivities(Get(RequestUserId(req)))

\* limit and offset of a request without query parameters.
DefaultLimit == 50

GetUserActivitiesController(req) ==
    IF RequestUserId(req) = Absent
    THEN Respond("GET /", 400, "User ID is required")
    ELSE LET u == Get(RequestUserId(req))
         IN  /\ ret' = [op |-> "getUserActivities", user |-> u, ok |-> TRUE,
                        value |-> GetUserActivities(activities[u], DefaultLimit)]
             /\ UNCHANGED <<rootActivities, clock, token, activities, goals, progress,
                            adminConfig, users, calls>>

\* getActivity(userId, activityId): the document, or null.
GetActivity(docs, activityId) == { d \in docs : d.id = activityId }

GetActivityController(req) ==
    IF RequestUserId(req) = Absent
    THEN Respond("GET /:activityId", 400, "User ID is required")
    ELSE IF req.params.activityId = Absent \/ Get(req.params.activityId) = 0
    THEN Respond("GET /:activityId", 400, "Activity ID is required")
    ELSE LET u == Get(RequestUserId(req))
             activity == GetActivity(activities[u], Get(req.params.activityId))
         IN  IF activity = Absent
             THEN Respond("GET /:activityId", 404, "Activity not found")
             ELSE /\ ret' = [op |-> "getActivity", user |-> u, ok |-> TRUE,
                             value |-> Get(activity)]
                  /\ UNCHANGED <<rootActivities, clock, token, activities, goals,
                                 progress, adminConfig, users, calls>>

\* Mutant: the body is handed to the service as it came.
AllUpdates(body) == body

\* The fields of the body the controller hands to the service.
ValidUpdates(body) ==
    [field \in DOMAIN body \cap AllowedFields |-> body[field]]

UpdateActivityController(req) ==
    IF RequestUserId(req) = Absent
    THEN Respond("PUT /:activityId", 400, "User ID is required")
    ELSE IF req.params.activityId = Absent \/ Get(req.params.activityId) = 0
    THEN Respond("PUT /:activityId", 400, "Activity ID is required")
    ELSE UpdateActivity(Get(RequestUserId(req)), Get(req.params.activityId),
                        ValidUpdates(req.body))

DeleteActivityController(req) ==
    IF RequestUserId(req) = Absent
    THEN Respond("DELETE /:activityId", 400, "User ID is required")
    ELSE IF req.params.activityId = Absent \/ Get(req.params.activityId) = 0
    THEN Respond("DELETE /:activityId", 400, "Activity ID is required")
    ELSE DeleteActivity(Get(RequestUserId(req)), Get(req.params.activityId))

RouteSync(header) ==
    IF ~Passes(header) THEN AuthenticateToken("POST /sync", header)
    ELSE SyncActivitiesController(RequestOf(header, Absent, <<>>))

RouteGetUserActivities(header) ==
    IF ~Passes(header) THEN AuthenticateToken("GET /", header)
    ELSE GetUserActivitiesController(RequestOf(header, Absent, <<>>))

RouteGetActivity(header, activityId) ==
    IF ~Passes(header) THEN AuthenticateToken("GET /:activityId", header)
    ELSE GetActivityController(RequestOf(header, activityId, <<>>))

RouteUpdateActivity(header, activityId, body) ==
    IF ~Passes(header) THEN AuthenticateToken("PUT /:activityId", header)
    ELSE UpdateActivityController(RequestOf(header, activityId, body))

RouteDeleteActivity(header, activityId) ==
    IF ~Passes(header) THEN AuthenticateToken("DELETE /:activityId", header)
    ELSE DeleteActivityController(RequestOf(header, activityId, <<>>))

RouteGetUserProgress(header) ==
    IF ~Passes(header) THEN AuthenticateToken("GET /progress/current", header)
    ELSE GetUserProgressController(RequestOf(header, Absent, <<>>))

RouteUpdateUserProgress(header) ==
    IF ~Passes(header) THEN AuthenticateToken("POST /progress/update", header)
    ELSE UpdateUserProgressController(RequestOf(header, Absent, <<>>))

InitApi == InitFor(ApiUsers)

NextApi ==
    \/ \E a \in UserIds : GetTokens(a)
    \/ \E u \in UserIds : DeleteUser(u)
    \/ \E u \in UserIds : HardDeleteUser(u)
    \/ \E h \in Headers : RouteSync(h)
    \/ \E h \in Headers : RouteGetUserActivities(h)
    \/ \E h \in Headers, id \in ActivityIdParams : RouteGetActivity(h, id)
    \/ \E h \in Headers, id \in ActivityIdParams, body \in RequestBodies :
         RouteUpdateActivity(h, id, body)
    \/ \E h \in Headers, id \in ActivityIdParams : RouteDeleteActivity(h, id)
    \/ \E h \in Headers : RouteGetUserProgress(h)
    \/ \E h \in Headers : RouteUpdateUserProgress(h)

SpecApi == InitApi /\ [][NextApi]_vars

(***************************************************************************)
(* The properties.  The calendar of the specification: a month is a year   *)
(* and a month number; a season occurrence is a season name and the year   *)
(* in which it starts, so January and February belong to the Winter of the *)
(* year before.                                                            *)
(***************************************************************************)
SeasonOfMonth(month) ==
    CASE month \in {3, 4, 5} -> "Spring"
      [] month \in {6, 7, 8} -> "Summer"
      [] month \in {9, 10, 11} -> "Fall"
      [] OTHER -> "Winter"

OccurrenceOf(year, month) ==
    <<SeasonOfMonth(month), IF month <= 2 THEN year - 1 ELSE year>>

OccurrenceAt(t) == OccurrenceOf(GetFullYear(t), GetMonth(t) + 1)

RECURSIVE TotalDistance(_)
TotalDistance(acts) ==
    IF acts = {} THEN 0
    ELSE LET a == CHOOSE x \in acts : TRUE
         IN  a.distance + TotalDistance(acts \ {a})

RECURSIVE TotalPace(_)
TotalPace(acts) ==
    IF acts = {} THEN 0
    ELSE LET a == CHOOSE x \in acts : TRUE
         IN  Get(a.pace) + TotalPace(acts \ {a})

\* The last ActivityService call was a run of updateUserProgress that returned
\* its Progress (directly, or through getUserProgress on a miss).
Ran ==
    \/ ret.op = "updateUserProgress"
    \/ ret.op = "getUserProgress" /\ ~ret.cached

\* The activities that run loaded: no activity call has been made since.
Loaded == GetUserActivities(activities[ret.user], ProgressQueryLimit)

\* C1: a user has at most one goal document per period: of the goals created
\* during one calendar month at most one is monthly, and of the goals created
\* during one season occurrence (Winter: December through February) at most
\* one is seasonal.
C1_OneGoalPerPeriod ==
    \A u \in UserIds : \A k1, k2 \in DOMAIN goals[u] :
        LET g1 == goals[u][k1]
            g2 == goals[u][k2]
        IN  /\ (g1.type = "monthly" /\ g2.type = "monthly"
                  /\ MonthIndex(g1.createdAt) = MonthIndex(g2.createdAt)) => k1 = k2
            /\ (g1.type = "seasonal" /\ g2.type = "seasonal"
                  /\ OccurrenceAt(g1.createdAt) = OccurrenceAt(g2.createdAt)) => k1 = k2

\* C2: when updateUserProgress runs again for the same user and period, its
\* get-or-create calls return goals with the same targets as the run before,
\* write nothing, and leave at each key the document the first run created.
C2_SecondCallReturnsSameGoal ==
    [][\A u \in UserIds :
         (/\ UpdateUserProgress(u)
          /\ Ran
          /\ ret.user = u
          /\ ret'.monthlyGoal.id = ret.monthlyGoal.id
          /\ ret'.seasonalGoal.id = ret.seasonalGoal.id)
         => /\ ret'.monthlyGoal.target = ret.monthlyGoal.target
            /\ ret'.seasonalGoal.target = ret.seasonalGoal.target
            /\ goals' = goals
            /\ goals'[u][ret.monthlyGoal.id] = ret.monthlyGoal
            /\ goals'[u][ret.seasonalGoal.id] = ret.seasonalGoal]_vars

\* A run found both of its goals already created at an earlier tick.
C2_Witness ==
    /\ ret.op = "updateUserProgress"
    /\ ret.monthlyGoal.createdAt < ret.value.lastUpdated
    /\ ret.seasonalGoal.createdAt < ret.value.lastUpdated
    /\ goals[ret.user][ret.monthlyGoal.id] = ret.monthlyGoal

\* C3: a goal document that exists at the key is returned as stored and kept
\* as it is, and a change of the configured default targets changes the
\* target of no goal document.
C3_ExistingGoalKept ==
    [][/\ \A u \in UserIds :
            ((UpdateUserProgress(u) \/ GetUserProgress(u)) /\ Ran')
            => /\ ret'.monthlyGoal.id \in DOMAIN goals[u]
                  => /\ ret'.monthlyGoal = goals[u][ret'.monthlyGoal.id]
                     /\ goals'[u][ret'.monthlyGoal.id] = goals[u][ret'.monthlyGoal.id]
               /\ ret'.seasonalGoal.id \in DOMAIN goals[u]
                  => /\ ret'.seasonalGoal = goals[u][ret'.seasonalGoal.id]
                     /\ goals'[u][ret'.seasonalGoal.id] = goals[u][ret'.seasonalGoal.id]
       /\ adminConfig' # adminConfig
            => \A u \in UserIds : \A k \in DOMAIN goals[u] :
                 /\ k \in DOMAIN goals'[u]
                 /\ goals'[u][k].target = goals[u][k].target]_vars

\* The configured default was changed, and a later run resolved a goal created
\* before with the built-in target.
C3_Witness ==
    /\ adminConfig # Absent
    /\ Get(adminConfig).defaultMonthly # DefaultMonthlyTarget
    /\ Ran
    /\ ret.monthlyGoal.createdAt < ret.value.lastUpdated
    /\ ret.monthlyGoal.target = DefaultMonthlyTarget

\* C4: a run in January or February of year Y resolves the seasonal goal of
\* (Winter, Y - 1), the document a run in December of Y - 1 resolves.
C4_JanuaryResolvesLastWinter ==
    (Ran /\ GetMonth(ret.value.lastUpdated) + 1 \in {1, 2})
    => ret.seasonalGoal.id =
         SeasonalGoalId(GetFullYear(ret.value.lastUpdated) - 1, "Winter")

\* C5: seasonalMileage is the sum of distance over exactly the loaded
\* activities dated inside the current occurrence of the current season.
C5_SeasonalMileageOfOccurrence ==
    Ran => ret.value.seasonalMileage =
             TotalDistance({ a \in Loaded :
                 OccurrenceOf(a.date.year, a.date.month)
                   = OccurrenceAt(ret.value.lastUpdated) })

\* C6: monthlyMileage is the sum of distance over exactly the loaded
\* activities dated in the month and year of now.
C6_MonthlyMileageOfMonth ==
    Ran => ret.value.monthlyMileage =
             TotalDistance({ a \in Loaded :
                 a.date.year * 12 + (a.date.month - 1)
                   = MonthIndex(ret.value.lastUpdated) })

\* A run counted an activity of its month while an activity of another month
\* of the same year was stored.
C6_Witness ==
    /\ Ran
    /\ ret.value.monthlyMileage > 0
    /\ \E a \in activities[ret.user] :
         /\ a.date.year = GetFullYear(ret.value.lastUpdated)
         /\ a.date.month # GetMonth(ret.value.lastUpdated) + 1

\* C7: averagePace is the mean of pace over the activities that have a pace,
\* and 0 when none has.
C7_AveragePaceOverPaced ==
    Ran => LET paced == { a \in Loaded : a.pace # Absent }
           IN  ret.value.averagePace =
                 IF paced = {} THEN 0 ELSE TotalPace(paced) \div Cardinality(paced)

C9_EmptyActivitySet ==
    (ret.op = "updateUserProgress" /\ activities[ret.user] = {})
    => LET p == ret.value
           u == ret.user
       IN  /\ ret.ok
           /\ p.monthlyMileage = 0 /\ p.seasonalMileage = 0
           /\ p.totalActivities = 0 /\ p.averagePace = 0 /\ p.longestRun = 0
           /\ p.monthlyProgress = 0 /\ p.seasonalProgress = 0
           /\ MonthlyGoalId(GetFullYear(p.lastUpdated), GetMonth(p.lastUpdated) + 1)
                \in DOMAIN goals[u]
           /\ \E k \in DOMAIN goals[u] :
                /\ goals[u][k].type = "seasonal"
                /\ goals[u][k].season = SeasonOfMonth(GetMonth(p.lastUpdated) + 1)
                /\ k = ret.seasonalGoal.id
           /\ progress[u] = Some(p)

\* updateUserProgress has run for a user without activities.
C9_Witness ==
    /\ ret.op = "updateUserProgress"
    /\ activities[ret.user] = {}
    /\ ret.ok
    /\ progress[ret.user] # Absent

\* C10: totalActivities is the number of activity documents the user has, and
\* no stored activity of the month is missing from monthlyMileage.
C10_AllStoredActivitiesCounted ==
    ret.op = "updateUserProgress"
    => /\ ret.value.totalActivities = Cardinality(activities[ret.user])
       /\ ret.value.monthlyMileage =
            SumDistance({ a \in activities[ret.user] :
                a.date.year * 12 + (a.date.month - 1)
                  = MonthIndex(ret.value.lastUpdated) })

\* C11: whenever no operation is in flight, the persisted Progress of a user
\* is the value a recomputation now gives from the user's activities and the
\* targets of the two goals of the current period (lastUpdated, the time of
\* the computation, set aside).
C11_PersistedProgressIsCurrent ==
    \A u \in UserIds :
        progress[u] # Absent
        => LET p == Get(progress[u])
               r == UpdateUserProgressAt(u, activities[u], goals[u], clock)
           IN  p = [r.progress EXCEPT !.lastUpdated = p.lastUpdated]

\* C12: getUserProgress returns a persisted Progress as it is and writes
\* nothing; with none persisted it returns what updateUserProgress computes
\* and the Progress is persisted after the call.
C12_ReadThroughCache ==
    [][\A u \in UserIds :
         GetUserProgress(u)
         => IF progress[u] # Absent
            THEN /\ ret'.value = Get(progress[u])
                 /\ progress' = progress
                 /\ goals' = goals
                 /\ activities' = activities
            ELSE /\ ret'.value =
                      UpdateUserProgressAt(u, activities[u], goals[u], clock).progress
                 /\ progress'[u] = Some(ret'.value)]_vars

\* getUserProgress answered from the persisted document, computed at an
\* earlier tick.
C12_Witness ==
    /\ ret.op = "getUserProgress"
    /\ ret.cached
    /\ ret.value.lastUpdated < clock
    /\ progress[ret.user] = Some(ret.value)

\* C13: a goal document, once created, exists in every later state: no step
\* of the program removes a goal document.
C13_GoalsNeverDeleted ==
    [][\A u \in UserIds : \A k \in DOMAIN goals[u] : k \in DOMAIN goals'[u]]_vars

C19_TargetIsCallerOrAdminNamed ==
    [][\A b \in Bearers, named \in Bearers :
         (/\ Authenticated(b) # Absent
          /\ RouteProgressCurrent(b, named) \/ RouteProgressUpdate(b, named))
         => LET caller == Get(Authenticated(b))
                target == IF caller.role = "admin" /\ named # Absent
                          THEN Get(named) ELSE caller.id
            IN  /\ ret'.user = target
                /\ ret'.value.userId = target]_vars

\* C20: updateUserProgress(U) and getUserProgress(U) leave every activity
\* document, every user document and every goal and Progress document of the
\* other users as they are, keep U's existing goals, add at most the two goals
\* of the current period, and return what U's own documents determine.
C20_OnlyOwnProgressAndGoals ==
    [][\A u \in UserIds :
         (UpdateUserProgress(u) \/ GetUserProgress(u))
         => LET r == UpdateUserProgressAt(u, activities[u], goals[u], clock)
            IN  /\ UNCHANGED <<activities, users, token, adminConfig>>
                /\ \A v \in UserIds \ {u} :
                     goals'[v] = goals[v] /\ progress'[v] = progress[v]
                /\ \A k \in DOMAIN goals[u] :
                     k \in DOMAIN goals'[u] /\ goals'[u][k] = goals[u][k]
                /\ DOMAIN goals'[u] \subseteq
                     DOMAIN goals[u] \cup {r.monthlyGoal.id, r.seasonalGoal.id}
                /\ ret'.value = IF ret'.cached THEN Get(progress[u]) ELSE r.progress
                /\ progress'[u] = Some(ret'.value)]_vars

\* updateUserProgress has run for a user without activities while another
\* user has activities, goals and a Progress.
C20_Witness ==
    /\ ret.op = "updateUserProgress"
    /\ activities[ret.user] = {}
    /\ \E v \in UserIds \ {ret.user} :
         /\ activities[v] # {}
         /\ progress[v] # Absent
         /\ DOMAIN goals[v] # {}

\* The Progress a call in flight computes from its one read of the activities,
\* the goals it resolved and the clock it read.
RecomputedBy(call) ==
    [ProgressWith(call.user, call.acts, Get(call.monthly), Get(call.seasonal), call.now,
                  call.season)
       EXCEPT !.lastUpdated = Get(call.value).lastUpdated]

\* C14: with two updateUserProgress calls interleaved, every change of the
\* persisted Progress is the write of one call and leaves the document equal
\* to the full recomputation from that call's single read of the activities,
\* never a mixture of two reads.
C14_PersistedIsOneFullRecomputation ==
    [][\A u \in UserIds :
         progress'[u] # progress[u]
         => \E c \in DOMAIN calls :
              /\ calls[c].pc = "progressSet"
              /\ calls[c].user = u
              /\ calls'[c] = Idle
              /\ progress'[u] = Some(RecomputedBy(calls[c]))]_vars

\* Both calls have finished and the persisted Progress is the one returned
\* last, computed from a read made before the other call changed the
\* activities.
C14_Witness ==
    /\ \A c \in DOMAIN calls : calls[c] = Idle
    /\ ret.op = "updateUserProgress"
    /\ ret.ok
    /\ progress[ret.user] = Some(ret.value)
    /\ ret.value.totalActivities # Cardinality(activities[ret.user])

\* C15: with two get-or-create calls for the same user and period interleaved
\* the store holds one goal document per key, at the key that is its id, and
\* every caller that has resolved the goal holds the fixed default target,
\* the target of the stored document.
C15_OneGoalSameTarget ==
    /\ \A u \in UserIds : \A k \in DOMAIN goals[u] : goals[u][k].id = k
    /\ \A c \in DOMAIN calls :
         calls[c].pc # "idle"
         => LET call == calls[c]
                store == goals[call.user]
            IN  /\ call.monthly # Absent
                     => /\ Get(call.monthly).target = DefaultMonthlyTarget
                        /\ call.pc # "monthlySet"
                             => /\ Get(call.monthly).id \in DOMAIN store
                                /\ store[Get(call.monthly).id].target
                                     = Get(call.monthly).target
                /\ call.seasonal # Absent
                     => /\ Get(call.seasonal).target = DefaultSeasonalTarget
                        /\ call.pc # "seasonalSet"
                             => /\ Get(call.seasonal).id \in DOMAIN store
                                /\ store[Get(call.seasonal).id].target
                                     = Get(call.seasonal).target

\* Two calls in flight both saw the monthly key absent and both wrote it: each
\* holds the default goal it built, at different ticks, for the same key.
C15_Witness ==
    \E c1, c2 \in DOMAIN calls :
        /\ c1 # c2
        /\ calls[c1].pc \in {"seasonalGet", "seasonalSet", "progressSet"}
        /\ calls[c2].pc \in {"seasonalGet", "seasonalSet", "progressSet"}
        /\ Get(calls[c1].monthly).id = Get(calls[c2].monthly).id
        /\ Get(calls[c1].monthly).createdAt # Get(calls[c2].monthly).createdAt
        /\ Cardinality({ k \in DOMAIN goals[calls[c1].user] :
                           goals[calls[c1].user][k].type = "monthly" }) = 1

\* C16: when a store operation of updateUserProgress fails the call ends with
\* 'Failed to update progress' (inside getUserProgress: 'Failed to get
\* progress'), nothing is attempted again, and the persisted Progress, the
\* goals and the activities are as they were.
C16_FailureEndsTheCall ==
    [][\A c \in DOMAIN calls :
         (calls[c].pc # "idle" /\ StoreFails(c))
         => /\ calls'[c] = Idle
            /\ ~ret'.ok
            /\ calls[c].op = "updateUserProgress"
                 => ret'.error = "Failed to update progress"
            /\ calls[c].op = "getUserProgress"
                 => ret'.error = "Failed to get progress"
            /\ UNCHANGED <<progress, goals, activities>>]_vars

\* updateUserProgress failed at the write of the Progress, and the Progress
\* persisted earlier, computed before an activity was stored, is still there.
C16_Witness ==
    /\ ret.op = "updateUserProgress"
    /\ ~ret.ok
    /\ ret.at = "progressSet"
    /\ progress[ret.user] # Absent
    /\ Get(progress[ret.user]).totalActivities # Cardinality(activities[ret.user])

\* C17: requests served one at a time.  No goal document that exists is
\* written again, and the updateUserProgress call that completes after a
\* failed one persists the Progress of a run that never failed (the atomic run
\* from a store without goals, at the clock the call read) and returns the
\* stored goal documents, which it leaves as they are.
C17_NextRunHeals ==
    [][\A c \in DOMAIN calls :
         /\ MonthlyGoalSet(c)
              => Get(calls[c].monthly).id \notin DOMAIN goals[calls[c].user]
         /\ SeasonalGoalSet(c)
              => Get(calls[c].seasonal).id \notin DOMAIN goals[calls[c].user]
         /\ (/\ calls[c].pc = "progressSet"
             /\ ProgressSet(c)
             /\ calls[c].op = "updateUserProgress"
             /\ ret.op = "updateUserProgress"
             /\ ~ret.ok
             /\ ret.user = calls[c].user)
            => LET u == calls[c].user
                   never == UpdateUserProgressAt(u, activities[u], <<>>, calls[c].now)
               IN  /\ progress'[u] = Some([never.progress EXCEPT
                                             !.lastUpdated = ret'.value.lastUpdated])
                   /\ goals' = goals
                   /\ goals[u][never.monthlyGoal.id] = ret'.monthlyGoal
                   /\ goals[u][never.seasonalGoal.id] = ret'.seasonalGoal]_vars

\* A call failed at the write of the Progress after creating both goals; the
\* next call has found both goals in the store and is at its write of the
\* Progress, none being persisted yet.
C17_Witness ==
    /\ ret.op = "updateUserProgress"
    /\ ~ret.ok
    /\ ret.at = "progressSet"
    /\ progress[ret.user] = Absent
    /\ \E c \in DOMAIN calls :
         /\ calls[c].pc = "progressSet"
         /\ calls[c].op = "updateUserProgress"
         /\ calls[c].user = ret.user
         /\ Get(calls[c].monthly).createdAt < calls[c].now
         /\ Get(calls[c].seasonal).createdAt < calls[c].now
         /\ goals[ret.user][Get(calls[c].monthly).id] = Get(calls[c].monthly)

\* C21: in the scheduled sync over the active users, a failure while one
\* user is processed does not stop the batch: while the job is at the i-th
\* selected user, each of the i - 1 users before has been counted once, as
\* synced or as failed; the job ends without raising, and when its query of
\* the users succeeded, every selected user has been counted once.
C21_FailureDoesNotStopTheBatch ==
    /\ \A c \in DOMAIN calls :
          (calls[c] # Idle /\ calls[c].op = "syncAllUsersActivities"
                           /\ calls[c].pc # "usersQuery") =>
             /\ calls[c].i \in 1 .. Len(calls[c].docs)
             /\ calls[c].successCount + calls[c].errorCount = calls[c].i - 1
    /\ ret.op = "syncAllUsersActivities" =>
          /\ ret.ok
          /\ ret.successCount + ret.errorCount = ret.selected

\* The first selected user failed and the second one's activities are
\* being written.
C21_Witness ==
    \E c \in DOMAIN calls :
        /\ calls[c] # Idle
        /\ calls[c].op = "syncAllUsersActivities"
        /\ calls[c].pc = "batchCommit"
        /\ calls[c].i = 2
        /\ calls[c].errorCount = 1

\* The fields of the stored activities that are not editable, per document.
Frozen(docs) == { [id |-> d.id, date |-> d.date, route |-> d.route] : d \in docs }

C23_GoalFieldsWriteOnce ==
    [][\A u \in DOMAIN goals :
          \A id \in DOMAIN goals[u] \cap DOMAIN goals'[u] :
             /\ goals'[u][id].target = goals[u][id].target
             /\ goals'[u][id].current = goals[u][id].current
             /\ goals'[u][id].isCompleted = goals[u][id].isCompleted]_vars

\* The persisted Progress counts mileage towards a monthly goal whose
\* document still says current = 0 and not completed.
C23_Witness ==
    \E u \in DOMAIN goals :
        /\ progress[u] # Absent
        /\ Get(progress[u]).monthlyMileage > 0
        /\ \E id \in DOMAIN goals[u] :
              /\ id = MonthlyGoalId(GetFullYear(clock), GetMonth(clock) + 1)
              /\ goals[u][id].current = 0
              /\ ~goals[u][id].isCompleted
              /\ goals[u][id].target = DefaultMonthlyTarget

\* C24: within one updateUserProgress run the season used for the seasonal
\* mileage and the seasonal goal is the season that contains the month used
\* for the monthly mileage and the monthly goal, also when the month changes
\* during the run.
C24_SeasonContainsMonth ==
    (ret.op = "updateUserProgress" /\ ret.ok) =>
        ret.seasonalGoal.season = SeasonOfMonth(ret.monthlyGoal.month)

\* C25: syncActivities never overwrites a stored activity: after a sync
\* the documents under the ids stored before are the documents stored
\* before, user edits included; `synced` counts the documents the sync
\* added; and when every Run / Walk / Hike of the remote list is already
\* stored, the sync reports synced = 0 and leaves the activities unchanged.
C25_SyncNeverOverwrites ==
    [][\A u \in UserIds :
          token # Absent =>
             \A page \in StravaPages(Get(token)) :
                SyncActivitiesPage(u, page) =>
                   LET stored == { d.id : d \in activities[u] }
                       remote == { x.id : x \in { y \in page :
                                                    y.type \in {"Run", "Walk", "Hike"} } }
                   IN  /\ { d \in activities'[u] : d.id \in stored } = activities[u]
                       /\ ret'.value.synced =
                             Cardinality(activities'[u] \ activities[u])
                       /\ ret'.value.total = Cardinality(page)
                       /\ remote \subseteq stored =>
                             /\ ret'.value.synced = 0
                             /\ activities' = activities]_vars

\* The whole remote list was synced again after the user had cleared the
\* pace of activity 1: nothing was stored anew and the edit is still there.
C25_Witness ==
    /\ ret.op = "syncActivities"
    /\ ret.ok
    /\ ret.value.synced = 0
    /\ ret.value.total = 3
    /\ \E d \in activities[ret.user] :
          /\ d.id = 1
          /\ d.pace = Absent

\* C26: a request to update an activity that is not stored is answered
\* with 404 'Activity not found', and the user's activities are left as
\* they were.
C26_UpdateOfMissingIsNotFound ==
    [][\A h \in Headers, id \in ActivityIdParams, body \in RequestBodies :
          ( /\ Passes(h)
            /\ id # Absent
            /\ GetActivity(activities[Get(VerifyToken(h))], Get(id)) = Absent
            /\ RouteUpdateActivity(h, id, body) )
          => /\ "status" \in DOMAIN ret'
             /\ ret'.status = 404
             /\ ret'.message = "Activity not found"
             /\ activities' = activities]_vars

\* The request carries a token that jwt.verify accepts, signed for a user
\* whose document exists and is active.
ActiveUserToken(h) ==
    /\ h # Absent
    /\ Get(h).state = "valid"
    /\ Get(h).id \in DOMAIN users
    /\ users[Get(h).id].isActive

\* A request to one of the activity or progress routes is served.
ActivityRequest(h, id, body) ==
    \/ RouteSync(h)
    \/ RouteGetUserActivities(h)
    \/ RouteGetActivity(h, id)
    \/ RouteUpdateActivity(h, id, body)
    \/ RouteDeleteActivity(h, id)
    \/ RouteGetUserProgress(h)
    \/ RouteUpdateUserProgress(h)

WithinPeriod(goal, t) ==
    /\ goal.startDate.year * 12 + goal.startDate.month - 1 <= MonthIndex(t)
    /\ MonthIndex(t) <= goal.endDate.year * 12 + goal.endDate.month - 1
    /\ goal.startDate.day = 1
    /\ goal.endDate.day = DaysInMonth(goal.endDate.year, goal.endDate.month)

\* C28: the date at which updateUserProgress ran lies within the period
\* [startDate, endDate] of the seasonal goal it resolved, in every month of
\* the year, and within the period of the monthly goal it resolved.
C28_NowWithinResolvedPeriods ==
    (ret.op = "updateUserProgress" /\ ret.ok) =>
        /\ WithinPeriod(ret.seasonalGoal, ret.value.lastUpdated)
        /\ WithinPeriod(ret.monthlyGoal, ret.value.lastUpdated)

\* C29: when a deleteActivity and another updateUserProgress of the same
\* user have run at the same time and all calls have completed, the
\* persisted Progress is the recomputation from the activities now stored,
\* not one computed from the list before the deletion.
C29_FinalProgressIsFresh ==
    \A u \in UserIds :
        ( /\ \A c \in DOMAIN calls : calls[c] = Idle
          /\ progress[u] # Absent )
        => [Get(progress[u]) EXCEPT !.lastUpdated = 0] =
           [UpdateUserProgressAt(u, activities[u], goals[u], clock).progress
              EXCEPT !.lastUpdated = 0]

\* C30: every activity stored under a user was fetched with that user's own
\* Strava credentials: it is an activity of the athlete the user is, after
\* any sequence of logins and syncs by different users.
C30_OnlyOwnAthletesActivities ==
    \A u \in UserIds :
        \A d \in activities[u] :
            d.id \in { x.id : x \in StravaActivities(u) }

====
